---- MODULE Spec2Model ----
(***************************************************************************)
(* A model of the L1 Activity Bot chat widget: the ChatBot component       *)
(* (intent routing, account and instance discovery, agent deployment), the *)
(* InstanceDetailsTable component (refresh) and the two action modals      *)
(* (InstanceTypeChangeModal, VolumeConversionModal).                       *)
(*                                                                         *)
(* Every handler is one action that runs from its entry to its first       *)
(* await; the part after the await is the action that consumes the         *)
(* response.  A backend call in flight is an element of `calls`; the       *)
(* backend answers it (BackendRespond) and the handler's continuation then *)
(* runs (the ...Done actions).  A setTimeout callback is an element of     *)
(* `timers`.                                                               *)
(***************************************************************************)
EXTENDS Integers, Sequences, FiniteSets, TLC

VARIABLES
    messages,            \* ChatBot: the transcript
    loading,             \* ChatBot: the "Thinking..." flag
    conversationState,   \* ChatBot: welcome / account-selection / instance-management
    accountGroups,       \* ChatBot: the discovered accounts
    selectedAccount,     \* ChatBot: the selected account, or NoAccount
    instances,           \* ChatBot: the shared instance list
    confirmationModal,   \* ChatBot: the agent-deployment confirmation modal
    tables,              \* InstanceDetailsTable state, one per instances-table message
    calls,               \* backend calls in flight, in the order they were issued
    timers,              \* setTimeout callbacks not yet run, in the order they were set
    typeModal,           \* InstanceTypeChangeModal: props and state
    volumeModal          \* VolumeConversionModal: props and state

vars == <<messages, loading, conversationState, accountGroups, selectedAccount,
          instances, confirmationModal, tables, calls, timers, typeModal,
          volumeModal>>

chatState == <<messages, loading, conversationState, accountGroups, selectedAccount,
               instances, confirmationModal, tables>>

chatVars == <<chatState, timers>>

(***************************************************************************)
(* Bounds of the model.                                                    *)
(***************************************************************************)
\* User actions that add to the transcript are taken only below this length.
MaxMsgs == 8
\* At most this many backend calls and timers are outstanding when a modal issues
\* another, and a modal opens only while the transcript is shorter than
\* MaxModalMsgs.
MaxModalCalls == 1
MaxModalMsgs == 8
\* The inputs of the classifier specification are made of at most MaxWords words.
MaxWords == 3
\* In the specification of the table, the user acts only while the transcript is
\* shorter than this.
MaxTableMsgs == 9
\* The lists of the specification of the rendering have at most this many
\* instances.
MaxInstances == 3
\* In the specification of two tables, the user acts only while the transcript is
\* shorter than this.
MaxTwoTablesMsgs == 11

\* The findGp2Volumes calls that overlap in SpecDiscovery.
MaxDiscoveries == 2

(***************************************************************************)
(* Strings: String.prototype.toLowerCase, includes and trim, computed      *)
(* character by character.                                                 *)
(***************************************************************************)
UpperChars == "ABCDEFGHIJKLMNOPQRSTUVWXYZ"
LowerChars == "abcdefghijklmnopqrstuvwxyz"

LowerChar(c) ==
    IF \E i \in 1..Len(UpperChars) : SubSeq(UpperChars, i, i) = c
    THEN LET i == CHOOSE j \in 1..Len(UpperChars) : SubSeq(UpperChars, j, j) = c
         IN  SubSeq(LowerChars, i, i)
    ELSE c

RECURSIVE toLowerCase(_)
toLowerCase(s) ==
    IF Len(s) = 0 THEN ""
    ELSE LowerChar(SubSeq(s, 1, 1)) \o toLowerCase(SubSeq(s, 2, Len(s)))

includes(s, k) ==
    \E i \in 1..(Len(s) - Len(k) + 1) : SubSeq(s, i, i + Len(k) - 1) = k

RECURSIVE trimStart(_)
trimStart(s) ==
    IF Len(s) > 0 /\ SubSeq(s, 1, 1) = " " THEN trimStart(SubSeq(s, 2, Len(s))) ELSE s

RECURSIVE trimEnd(_)
trimEnd(s) ==
    IF Len(s) > 0 /\ SubSeq(s, Len(s), Len(s)) = " "
    THEN trimEnd(SubSeq(s, 1, Len(s) - 1)) ELSE s

trim_None(s) == s

trim(s) == trimEnd(trimStart(s))

(***************************************************************************)
(* JavaScript values: a missing property reads as undefined.               *)
(***************************************************************************)
Undefined == "$undefined"
Null == "$null"

Has(rec, field) == field \in DOMAIN rec

Get(rec, field) == IF Has(rec, field) THEN rec[field] ELSE Undefined

\* rec.field is true (a missing field is undefined, which is falsy)
IsTrue(rec, field) == Has(rec, field) /\ rec[field] = TRUE

(***************************************************************************)
(* The intent classifier of ChatBot.                                       *)
(***************************************************************************)
CloudWatchKeywords ==
    {"cloudwatch", "configure", "agent", "install", "setup", "monitor", "start", "deploy"}
AlarmKeywords ==
    {"alarm", "alert", "threshold", "notification", "warning", "metric"}
InstanceTypeChangeKeywords ==
    {"change", "resize", "upgrade", "instance type", "scale", "modify instance"}
VolumeConversionKeywords ==
    {"volume", "gp2", "gp3", "storage", "convert", "migrate", "cost saving",
     "optimize storage"}

checkCloudWatchIntent(userInput) ==
    \E keyword \in CloudWatchKeywords : includes(toLowerCase(userInput), keyword)

checkAlarmIntent(userInput) ==
    \E keyword \in AlarmKeywords : includes(toLowerCase(userInput), keyword)

checkInstanceTypeChangeIntent(userInput) ==
    \E keyword \in InstanceTypeChangeKeywords : includes(toLowerCase(userInput), keyword)

checkVolumeConversionIntent(userInput) ==
    \E keyword \in VolumeConversionKeywords : includes(toLowerCase(userInput), keyword)

\* The branch of handleSend's if / else-if chain that runs for `value`.
HandleSendBranch_AlarmBeforeCloudWatch(value) ==
    IF checkVolumeConversionIntent(value) THEN "volume-conversion"
    ELSE IF checkInstanceTypeChangeIntent(value) THEN "instance-type-change"
    ELSE IF checkAlarmIntent(value) THEN "alarm-configuration"
    ELSE IF checkCloudWatchIntent(value) THEN "cloudwatch-configuration"
    ELSE "generic-chat"

HandleSendBranch_TypeBeforeVolume(value) ==
    IF checkInstanceTypeChangeIntent(value) THEN "instance-type-change"
    ELSE IF checkVolumeConversionIntent(value) THEN "volume-conversion"
    ELSE IF checkCloudWatchIntent(value) THEN "cloudwatch-configuration"
    ELSE IF checkAlarmIntent(value) THEN "alarm-configuration"
    ELSE "generic-chat"

HandleSendBranch(value) ==
    IF checkVolumeConversionIntent(value) THEN "volume-conversion"
    ELSE IF checkInstanceTypeChangeIntent(value) THEN "instance-type-change"
    ELSE IF checkCloudWatchIntent(value) THEN "cloudwatch-configuration"
    ELSE IF checkAlarmIntent(value) THEN "alarm-configuration"
    ELSE "generic-chat"

ActionIntents ==
    {"volume-conversion", "instance-type-change", "cloudwatch-configuration",
     "alarm-configuration"}

(***************************************************************************)
(* The backend: the accounts it reports and, per account, the instance     *)
(* data it may report.  The data changes as the backend's work proceeds,   *)
(* so any answer may carry any version of it.                              *)
(***************************************************************************)
NoAccount == Null

AccountIds == {"111122223333", "444455556666"}

BackendAccountGroups == <<"111122223333", "444455556666">>

Versions == {1, 2}

Instance(id, state, cw, alarms, type) ==
    [InstanceId |-> id, State |-> state, Region |-> "us-east-1",
     InstanceType |-> type, CloudWatchConfigured |-> cw, AlarmsConfigured |-> alarms,
     ActionNeeded |-> ~cw]

\* instance: null
NoInstance == Instance(Null, Null, FALSE, FALSE, Null)

BackendInstances(accountId, version) ==
    IF accountId = "111122223333"
    THEN IF version = 1
         THEN << Instance("i-a1", "running", FALSE, FALSE, "t2.micro"),
                 Instance("i-a2", "running", TRUE, FALSE, "t3.small") >>
         ELSE << Instance("i-a1", "running", TRUE, FALSE, "t2.micro"),
                 Instance("i-a2", "stopped", TRUE, TRUE, "t3.small"),
                 Instance("i-a3", "running", FALSE, FALSE, "t2.micro") >>
    ELSE IF version = 1
         THEN << Instance("i-b1", "stopped", FALSE, FALSE, "t2.micro"),
                 Instance("i-b2", "running", TRUE, TRUE, "t3.small"),
                 Instance("i-b3", "terminated", TRUE, FALSE, "t2.micro") >>
         ELSE << Instance("i-b1", "running", FALSE, FALSE, "t2.micro") >>

Volume(id, type, size, instanceId) ==
    [VolumeId |-> id, VolumeType |-> type, Size |-> size, InstanceId |-> instanceId]

BackendVolumes ==
    << Volume("vol-1", "gp2", 100, "i-a1"), Volume("vol-2", "gp3", 51, "i-a1"),
       Volume("vol-3", "gp2", 50, "i-a9") >>

\* The volumes a discovery request asks for.
QueryVolumes(args) ==
    LET Test(v) == /\ (args.instanceId = Null \/ v.InstanceId = args.instanceId)
                   /\ (args.volumeTypeFilter = "all" \/ v.VolumeType = args.volumeTypeFilter)
    IN  SelectSeq(BackendVolumes, Test)

BackendIntents ==
    {"cloudwatch_configuration", "alarm_configuration", "instance_type_change",
     "volume_conversion", "general"}

\* The body of the backend's 2xx answer to a call.
ResponseBodies(call) ==
    CASE call.op = "discoverAccounts" ->
           {[accountGroups |-> BackendAccountGroups]}
      [] call.op = "discoverInstances" ->
           {[instances |-> BackendInstances(call.args.accountId, v),
             summary |-> [totalInstances |-> Len(BackendInstances(call.args.accountId, v))]]
              : v \in Versions}
      [] call.op = "sendMessage" ->
           {[message |-> "reply", intent |-> i] : i \in BackendIntents}
      [] call.op = "findGp2Volumes" ->
           {[success |-> TRUE, volumes |-> QueryVolumes(call.args)],
            [success |-> FALSE, error |-> "failed"]}
      [] call.op = "convertGp2ToGp3Volumes" ->
           {[success |-> TRUE,
             summary |-> [successfulConversions |-> n,
                          failedConversions |-> Len(call.args.volumeIds) - n,
                          totalVolumes |-> Len(call.args.volumeIds)]]
              : n \in 0..Len(call.args.volumeIds)}
      [] call.op = "changeInstanceType" ->
           {[success |-> TRUE], [success |-> FALSE, error |-> "failed"]}
      [] call.op = "configureAlarms" ->
           {[httpStatus |-> 200, success |-> TRUE,
             alarmDetails |-> [successfulAlarms |-> 4, totalAlarms |-> 4]],
            [httpStatus |-> 200, success |-> TRUE],
            [httpStatus |-> 207, partialSuccess |-> TRUE,
             alarmDetails |-> [successfulAlarms |-> 2, totalAlarms |-> 4]],
            [httpStatus |-> 200, success |-> FALSE, error |-> "failed"]}
      [] OTHER -> {[commandId |-> "cmd-1"]}

(***************************************************************************)
(* Services/api.js: apiCall resolves to {status: "success", data} for a    *)
(* 2xx answer and throws otherwise; sendMessage turns the throw into       *)
(* {status: "error", message}.  `Thrown` stands for a rejected promise.    *)
(***************************************************************************)
Thrown == [thrown |-> TRUE]

IsThrown(result) == "thrown" \in DOMAIN result

apiCall(resp) ==
    IF resp.status = "ok" THEN [status |-> "success", data |-> resp.body] ELSE Thrown

sendMessage(resp) ==
    IF IsThrown(apiCall(resp))
    THEN [status |-> "error", message |-> "Failed to send message"]
    ELSE apiCall(resp)

discoverAccounts(resp) == apiCall(resp)

discoverInstances(resp) == apiCall(resp)

\* configureAlarms reads the answer itself: {success: true, alarmDetails} for a
\* 2xx answer with success, {success: false, partialSuccess: true, alarmDetails}
\* for a 207 answer with partialSuccess, and it throws otherwise.
DefaultAlarmDetails == [successfulAlarms |-> 4, totalAlarms |-> 4]

configureAlarms_PartialThrows(resp) ==
    IF resp.status = "ok" /\ IsTrue(resp.body, "success")
    THEN [success |-> TRUE,
          alarmDetails |-> IF Has(resp.body, "alarmDetails")
                           THEN resp.body.alarmDetails ELSE DefaultAlarmDetails]
    ELSE Thrown

configureAlarms(resp) ==
    IF resp.status = "ok" /\ IsTrue(resp.body, "success")
    THEN [success |-> TRUE,
          alarmDetails |-> IF Has(resp.body, "alarmDetails")
                           THEN resp.body.alarmDetails ELSE DefaultAlarmDetails]
    ELSE IF resp.status = "ok" /\ resp.body.httpStatus = 207
            /\ IsTrue(resp.body, "partialSuccess")
    THEN IF Has(resp.body, "alarmDetails")
         THEN [success |-> FALSE, partialSuccess |-> TRUE,
               alarmDetails |-> resp.body.alarmDetails]
         ELSE [success |-> FALSE, partialSuccess |-> TRUE]
    ELSE Thrown

(***************************************************************************)
(* Calls in flight and timers.                                             *)
(***************************************************************************)
Pending == [status |-> "pending"]

\* A call: the request (op, args), the function awaiting it (origin), what that
\* function holds of the render that created it (captured), and the answer.
CallWith(op, origin, args, captured) ==
    [op |-> op, origin |-> origin, args |-> args, captured |-> captured, resp |-> Pending]

Call(op, origin, args) == CallWith(op, origin, args, <<>>)

Timer(kind, delay, data, tbl) ==
    [kind |-> kind, delay |-> delay, data |-> data, tbl |-> tbl]

RemoveAt(seq, i) == SubSeq(seq, 1, i - 1) \o SubSeq(seq, i + 1, Len(seq))

Answered(i) == i \in 1..Len(calls) /\ calls[i].resp.status # "pending"

\* A timer runs once every timer set before it with no longer a delay has run.
Due(i) ==
    /\ i \in 1..Len(timers)
    /\ \A j \in 1..(i - 1) : timers[j].delay > timers[i].delay

(***************************************************************************)
(* The transcript.  A message's text is the template it was built from     *)
(* and the values put into it.                                             *)
(***************************************************************************)
Message(from, type, text, data) ==
    [from |-> from, type |-> type, text |-> text, data |-> data]

TextMessage(from, text) == Message(from, "text", text, Null)

WelcomeMessage == TextMessage("bot", <<"welcome">>)

addMessage_Prepend(msgs, text, sender) ==
    <<TextMessage(IF sender = "user" THEN "user" ELSE "bot", text)>> \o msgs

\* addMessage(text, sender) of ChatBot.
addMessage(msgs, text, sender) ==
    Append(msgs, TextMessage(IF sender = "user" THEN "user" ELSE "bot", text))

(***************************************************************************)
(* ChatBot: the state after the component is constructed.                  *)
(***************************************************************************)
ClosedConfirmationModal == [show |-> FALSE, instanceId |-> "", region |-> ""]

ChatInit ==
    /\ messages = <<WelcomeMessage>>
    /\ loading = FALSE
    /\ conversationState = "welcome"
    /\ accountGroups = <<>>
    /\ selectedAccount = NoAccount
    /\ instances = <<>>
    /\ confirmationModal = ClosedConfirmationModal
    /\ tables = <<>>
    /\ calls = <<>>
    /\ timers = <<>>

(***************************************************************************)
(* ChatBot.handleSend and its continuations.                               *)
(***************************************************************************)
AckMessage(branch) == TextMessage("bot", <<"ack", branch>>)

\* handleSend up to its first await: fetchAccountGroups' discoverAccounts call for
\* an action intent, the sendMessage call for regular chat.  `input` is the content
\* of the text box when Enter is pressed or Send is clicked (both are disabled
\* while loading); handleSend empties the box.
HandleSend(input) ==
    /\ ~loading
    /\ LET value == trim(input) IN
         IF value = ""
         THEN UNCHANGED vars
         ELSE LET branch == HandleSendBranch(value)
                  withUser == Append(messages, TextMessage("user", <<"input", value>>))
              IN  /\ Len(messages) < MaxMsgs
                  /\ loading' = TRUE
                  /\ IF branch \in ActionIntents
                     THEN /\ messages' = Append(withUser, AckMessage(branch))
                          /\ calls' = Append(calls,
                                 Call("discoverAccounts", "handleSend", <<>>))
                     ELSE /\ messages' = withUser
                          /\ calls' = Append(calls,
                                 Call("sendMessage", "handleSend", [message |-> value]))
                  /\ UNCHANGED <<conversationState, accountGroups, selectedAccount,
                                 instances, confirmationModal, tables, timers,
                                 typeModal, volumeModal>>

AccountGroupsMessage(groups) ==
    Message("bot", "account-groups", <<"accounts-header">>, groups)

AccountsApology == TextMessage("bot", <<"sorry-accounts">>)

\* The conversation state fetchAccountGroups moves to.
StateAfterAccounts_Unchanged == conversationState

StateAfterAccounts == "account-selection"

\* fetchAccountGroups after its await, and the finally of the handleSend that
\* awaited it (a fetchAccountGroups run by a timer has no such caller).
DiscoverAccountsDone(i) ==
    /\ Answered(i)
    /\ calls[i].op = "discoverAccounts"
    /\ LET result == discoverAccounts(calls[i].resp) IN
         IF ~IsThrown(result) /\ result.status = "success"
         THEN LET groups == IF ~Has(result.data, "accountGroups")
                            THEN <<>> ELSE result.data.accountGroups
              IN  /\ accountGroups' = groups
                  /\ messages' = Append(messages, AccountGroupsMessage(groups))
                  /\ conversationState' = StateAfterAccounts
         ELSE /\ messages' = Append(messages, AccountsApology)
              /\ UNCHANGED <<accountGroups, conversationState>>
    /\ loading' = IF calls[i].origin = "handleSend" THEN FALSE ELSE loading
    /\ calls' = RemoveAt(calls, i)
    /\ UNCHANGED <<selectedAccount, instances, confirmationModal, tables, timers,
                   typeModal, volumeModal>>

RecognizedIntents ==
    {"cloudwatch_configuration", "alarm_configuration", "instance_type_change",
     "volume_conversion"}

ChatError == TextMessage("bot", <<"error-communicating">>)

\* result.intent, as the regular chat branch reads it
ReplyIntent_FromData(result) == Get(result.data, "intent")

ReplyIntent(result) == Get(result, "intent")

\* handleSend's regular-chat branch after its await, and its finally.
SendMessageDone(i) ==
    /\ Answered(i)
    /\ calls[i].op = "sendMessage"
    /\ LET result == sendMessage(calls[i].resp) IN
         IF result.status = "success"
         THEN LET replied == IF Get(result.data, "message") \in {Undefined, ""}
                             THEN "fallback" ELSE result.data.message
              IN  IF ReplyIntent(result) \in RecognizedIntents
                  THEN /\ timers' = Append(timers,
                              Timer("fetchAccountGroups", 1000, <<>>, 0))
                       /\ messages' = Append(messages,
                              TextMessage("bot", <<"chat-reply", Get(result, "message"), "">>))
                  ELSE /\ timers' = timers
                       /\ messages' = Append(messages,
                              TextMessage("bot", <<"chat-reply", replied, "try-saying">>))
         ELSE /\ messages' = Append(messages, ChatError)
              /\ timers' = timers
    /\ loading' = FALSE
    /\ calls' = RemoveAt(calls, i)
    /\ UNCHANGED <<conversationState, accountGroups, selectedAccount, instances,
                   confirmationModal, tables, typeModal, volumeModal>>

(***************************************************************************)
(* ChatBot.handleAccountSelect.                                            *)
(***************************************************************************)
\* instancesWithAlarms.filter(i => ...).length
unconfiguredCount_AnyState(insts) ==
    Cardinality({k \in 1..Len(insts) : insts[k].ActionNeeded})

unconfiguredCount(insts) ==
    Cardinality({k \in 1..Len(insts) :
                    insts[k].ActionNeeded /\ insts[k].State = "running"})

configuredCount(insts) ==
    Cardinality({k \in 1..Len(insts) :
                    insts[k].CloudWatchConfigured /\ insts[k].State = "running"})

alarmsConfiguredCount(insts) ==
    Cardinality({k \in 1..Len(insts) :
                    insts[k].AlarmsConfigured /\ insts[k].State = "running"})

InstancesTableMessage_SelectedAccount(insts, accountId) ==
    Message("bot", "instances-table",
            <<"found", Len(insts), unconfiguredCount(insts), configuredCount(insts),
              alarmsConfiguredCount(insts)>>,
            [instances |-> insts, accountId |-> selectedAccount])

InstancesTableMessage(insts, accountId) ==
    Message("bot", "instances-table",
            <<"found", Len(insts), unconfiguredCount(insts), configuredCount(insts),
              alarmsConfiguredCount(insts)>>,
            [instances |-> insts, accountId |-> accountId])

InstancesApology == TextMessage("bot", <<"sorry-instances">>)

\* The state of an InstanceDetailsTable when it is first rendered.
NewTable ==
    [refreshing |-> FALSE,
     alarmModal |-> [show |-> FALSE, instance |-> NoInstance],
     alarmLoading |-> FALSE]

\* A click on an account of a rendered account-groups card.
HandleAccountSelect(accountId) ==
    /\ Len(messages) < MaxMsgs
    /\ \E m \in 1..Len(messages) :
          /\ messages[m].type = "account-groups"
          /\ \E g \in 1..Len(messages[m].data) : messages[m].data[g] = accountId
    /\ selectedAccount' = accountId
    /\ messages' = messages \o
          << TextMessage("user", <<"selected-account", accountId>>),
             TextMessage("bot", <<"scanning", accountId>>) >>
    /\ loading' = TRUE
    /\ calls' = Append(calls,
          CallWith("discoverInstances", "handleAccountSelect",
                   [accountId |-> accountId],
                   [selectedAccount |-> selectedAccount]))
    /\ UNCHANGED <<conversationState, accountGroups, instances, confirmationModal,
                   tables, timers, typeModal, volumeModal>>

\* handleAccountSelect after its await, and its finally.
SelectInstancesDone(i) ==
    /\ Answered(i)
    /\ calls[i].op = "discoverInstances"
    /\ calls[i].origin = "handleAccountSelect"
    /\ LET result == discoverInstances(calls[i].resp) IN
         IF ~IsThrown(result) /\ result.status = "success"
         THEN IF Has(result.data, "instances")
              THEN LET instancesWithAlarms == result.data.instances
                   IN  /\ instances' = instancesWithAlarms
                       /\ messages' = Append(messages,
                              InstancesTableMessage(instancesWithAlarms,
                                                    calls[i].args.accountId))
                       /\ tables' = (Len(messages) + 1 :> NewTable) @@ tables
                       /\ conversationState' = "instance-management"
              ELSE \* result.data.instances.length throws after setInstances([])
                   /\ instances' = <<>>
                   /\ messages' = Append(messages, InstancesApology)
                   /\ UNCHANGED <<tables, conversationState>>
         ELSE /\ messages' = Append(messages, InstancesApology)
              /\ UNCHANGED <<instances, tables, conversationState>>
    /\ loading' = FALSE
    /\ calls' = RemoveAt(calls, i)
    /\ UNCHANGED <<accountGroups, selectedAccount, confirmationModal, timers,
                   typeModal, volumeModal>>

(***************************************************************************)
(* InstanceDetailsTable.handleRefreshInstances.  The table of message t    *)
(* is rendered with the shared instance list and the message's accountId.  *)
(***************************************************************************)
TableAccount(t) == messages[t].data.accountId

\* handleRefreshInstances up to its await.
HandleRefreshInstances(t) ==
    /\ tables' = [tables EXCEPT ![t].refreshing = TRUE]
    /\ messages' = addMessage(messages, <<"refresh-instance-status">>, "user")
    /\ calls' = Append(calls,
          Call("discoverInstances", "handleRefreshInstances",
               [accountId |-> TableAccount(t), tbl |-> t]))

\* The Refresh Status button (disabled while refreshing).
RefreshClick(t) ==
    /\ t \in DOMAIN tables
    /\ ~tables[t].refreshing
    /\ HandleRefreshInstances(t)
    /\ UNCHANGED <<loading, conversationState, accountGroups, selectedAccount,
                   instances, confirmationModal, timers, typeModal, volumeModal>>

\* handleRefreshInstances after its await, and its finally.
RefreshInstancesDone(i) ==
    /\ Answered(i)
    /\ calls[i].op = "discoverInstances"
    /\ calls[i].origin = "handleRefreshInstances"
    /\ LET response == discoverInstances(calls[i].resp) IN
         IF ~IsThrown(response) /\ response.status = "success"
            /\ Has(response.data, "instances")
         THEN /\ instances' = response.data.instances
              /\ timers' = Append(timers,
                     Timer("addMessage", 500,
                           <<"refreshed", response.data.summary.totalInstances>>, 0))
         ELSE /\ timers' = Append(timers,
                     Timer("addMessage", 500, <<"refresh-failed">>, 0))
              /\ UNCHANGED instances
    /\ tables' = [tables EXCEPT ![calls[i].args.tbl].refreshing = FALSE]
    /\ calls' = RemoveAt(calls, i)
    /\ UNCHANGED <<messages, loading, conversationState, accountGroups,
                   selectedAccount, confirmationModal, typeModal, volumeModal>>

(***************************************************************************)
(* Agent deployment: the row click of InstanceDetailsTable, the            *)
(* ConfirmationModal and ChatBot.proceedWithDeployment.                    *)
(***************************************************************************)
\* getInstanceStatus(instance).status
getInstanceStatus(instance) ==
    IF instance.CloudWatchConfigured /\ instance.AlarmsConfigured THEN "alarm_configured"
    ELSE IF instance.CloudWatchConfigured THEN "agent_configured"
    ELSE "not_configured"

actionNeeded_Always(instance) == TRUE

actionNeeded(instance) == getInstanceStatus(instance) = "not_configured"

priority(status) ==
    CASE status = "not_configured" -> 0
      [] status = "agent_configured" -> 1
      [] status = "alarm_configured" -> 2

\* The comparator of sortedInstances: negative, zero or positive.
compare_StateFirst(a, b) ==
    IF a.State # b.State
    THEN IF a.State = "running" THEN -1 ELSE 1
    ELSE priority(getInstanceStatus(a)) - priority(getInstanceStatus(b))

compare(a, b) ==
    IF priority(getInstanceStatus(a)) # priority(getInstanceStatus(b))
    THEN priority(getInstanceStatus(a)) - priority(getInstanceStatus(b))
    ELSE IF a.State # b.State
    THEN IF a.State = "running" THEN -1 ELSE 1
    ELSE 0

\* Array.prototype.sort.  The comparator answers 1 both ways for two instances of
\* one tier that are stopped and terminated, so it is not a consistent
\* comparator and the order sort produces is implementation-defined.  An
\* insertion sort moves an item left past an element either when
\* comparefn(item, element) < 0 or when comparefn(element, item) > 0; with a
\* consistent comparator the two tests agree.
SortTests == {"itemLess", "elementGreater"}

MovesLeftPast(item, element, test) ==
    IF test = "itemLess" THEN compare(item, element) < 0
    ELSE compare(element, item) > 0

RECURSIVE Insert(_, _, _)
Insert(sorted, item, test) ==
    IF Len(sorted) > 0 /\ MovesLeftPast(item, sorted[Len(sorted)], test)
    THEN Append(Insert(SubSeq(sorted, 1, Len(sorted) - 1), item, test),
                sorted[Len(sorted)])
    ELSE Append(sorted, item)

RECURSIVE InsertionSort(_, _)
InsertionSort(list, test) ==
    IF Len(list) = 0 THEN <<>>
    ELSE Insert(InsertionSort(SubSeq(list, 1, Len(list) - 1), test),
                list[Len(list)], test)

\* The orders in which the table may render the rows of a list.
sortedInstances(insts) == {InsertionSort(insts, test) : test \in SortTests}

\* A click on the k-th row of table t, which renders the shared list:
\* onInstanceSelect, then ChatBot.handleInstanceSelect.
RowClick(t, k) ==
    /\ t \in DOMAIN tables
    /\ k \in 1..Len(instances)
    /\ \E rows \in sortedInstances(instances) :
          IF actionNeeded(rows[k])
          THEN confirmationModal' = [show |-> TRUE, instanceId |-> rows[k].InstanceId,
                                     region |-> rows[k].Region]
          ELSE UNCHANGED confirmationModal
    /\ UNCHANGED <<messages, loading, conversationState, accountGroups,
                   selectedAccount, instances, tables, calls, timers, typeModal,
                   volumeModal>>

\* handleCancelDeployment
HandleCancelDeployment ==
    /\ confirmationModal.show
    /\ confirmationModal' = ClosedConfirmationModal
    /\ UNCHANGED <<messages, loading, conversationState, accountGroups,
                   selectedAccount, instances, tables, calls, timers, typeModal,
                   volumeModal>>

\* handleConfirmDeployment and proceedWithDeployment up to its await.
HandleConfirmDeployment ==
    /\ confirmationModal.show
    /\ Len(messages) < MaxMsgs
    /\ confirmationModal' = ClosedConfirmationModal
    /\ messages' = messages \o
          << TextMessage("user", <<"configure-agent-on", confirmationModal.instanceId>>),
             TextMessage("bot", <<"configuring-agent", confirmationModal.instanceId,
                                  confirmationModal.region>>) >>
    /\ loading' = TRUE
    /\ calls' = Append(calls,
          Call("deployCloudWatchAgent", "proceedWithDeployment",
               [instanceId |-> confirmationModal.instanceId,
                accountId |-> selectedAccount,
                region |-> confirmationModal.region]))
    /\ UNCHANGED <<conversationState, accountGroups, selectedAccount, instances,
                   tables, timers, typeModal, volumeModal>>

\* proceedWithDeployment without its catch block: the failure leaves through the
\* finally.
DeployDone_NoCatch(i) ==
    /\ Answered(i)
    /\ calls[i].op = "deployCloudWatchAgent"
    /\ LET result == apiCall(calls[i].resp) IN
         IF ~IsThrown(result) /\ result.status = "success"
         THEN messages' = Append(messages,
                 TextMessage("bot", <<"agent-initiated", calls[i].args.instanceId>>))
         ELSE messages' = messages
    /\ loading' = FALSE
    /\ calls' = RemoveAt(calls, i)
    /\ UNCHANGED <<conversationState, accountGroups, selectedAccount, instances,
                   confirmationModal, tables, timers, typeModal, volumeModal>>

\* proceedWithDeployment after its await, and its finally.
DeployDone(i) ==
    /\ Answered(i)
    /\ calls[i].op = "deployCloudWatchAgent"
    /\ LET result == apiCall(calls[i].resp) IN
         IF ~IsThrown(result) /\ result.status = "success"
         THEN messages' = Append(messages,
                 TextMessage("bot", <<"agent-initiated", calls[i].args.instanceId>>))
         ELSE messages' = Append(messages,
                 TextMessage("bot", <<"agent-failed", calls[i].args.instanceId>>))
    /\ loading' = FALSE
    /\ calls' = RemoveAt(calls, i)
    /\ UNCHANGED <<conversationState, accountGroups, selectedAccount, instances,
                   confirmationModal, tables, timers, typeModal, volumeModal>>

(***************************************************************************)
(* InstanceDetailsTable: the buttons of a row, and the alarm                *)
(* configuration (handleAlarmConfiguration, handleConfirmAlarmConfig).     *)
(* The AlarmConfigurationModal calls onConfirm or onCancel while the       *)
(* table shows it.                                                         *)
(***************************************************************************)
\* The Convert Volumes button of a row is enabled.
VolumeConversionEnabled(instance, volumeLoading) ==
    ~(instance.State = "terminated" \/ volumeLoading)

\* The Change Type button of a row is enabled.
TypeChangeEnabled(instance) == ~(instance.State = "terminated")

\* The Configure Alarms button of a row is rendered and enabled.
AlarmConfigurationEnabled(instance, alarmLoading) ==
    /\ getInstanceStatus(instance) = "agent_configured" /\ instance.State = "running"
    /\ ~alarmLoading

\* handleAlarmConfiguration: the Configure Alarms button of the row of the k-th
\* instance of the shared list, in table t.
HandleAlarmConfiguration(t, k) ==
    /\ t \in DOMAIN tables
    /\ k \in 1..Len(instances)
    /\ ~tables[t].alarmModal.show
    /\ AlarmConfigurationEnabled(instances[k], tables[t].alarmLoading)
    /\ tables' = [tables EXCEPT ![t].alarmModal = [show |-> TRUE, instance |-> instances[k]]]
    /\ UNCHANGED <<messages, loading, conversationState, accountGroups,
                   selectedAccount, instances, confirmationModal, calls, timers,
                   typeModal, volumeModal>>

\* onCancel of the alarm modal.
AlarmModalCancel(t) ==
    /\ t \in DOMAIN tables
    /\ tables[t].alarmModal.show
    /\ tables' = [tables EXCEPT ![t].alarmModal = [show |-> FALSE, instance |-> NoInstance]]
    /\ UNCHANGED <<messages, loading, conversationState, accountGroups,
                   selectedAccount, instances, confirmationModal, calls, timers,
                   typeModal, volumeModal>>

\* handleConfirmAlarmConfig up to its await: onConfirm of the alarm modal.
HandleConfirmAlarmConfig(t) ==
    /\ t \in DOMAIN tables
    /\ tables[t].alarmModal.show
    /\ LET instance == tables[t].alarmModal.instance IN
         /\ tables' = [tables EXCEPT
                          ![t].alarmModal = [show |-> FALSE, instance |-> NoInstance],
                          ![t].alarmLoading = TRUE]
         /\ messages' = addMessage(messages,
                           <<"configure-alarms-for", instance.InstanceId>>, "user")
         /\ calls' = Append(calls,
               CallWith("configureAlarms", "handleConfirmAlarmConfig",
                        [instanceId |-> instance.InstanceId,
                         accountId |-> TableAccount(t),
                         region |-> instance.Region,
                         tbl |-> t],
                        [instance |-> instance]))
    /\ UNCHANGED <<loading, conversationState, accountGroups, selectedAccount,
                   instances, confirmationModal, timers, typeModal, volumeModal>>

\* setInstances(prev => prev.map(...)): the instance is marked AlarmsConfigured.
MarkAlarmsConfigured(insts, instanceId) ==
    [k \in 1..Len(insts) |->
        IF insts[k].InstanceId = instanceId
        THEN [insts[k] EXCEPT !.AlarmsConfigured = TRUE]
        ELSE insts[k]]

\* response.alarmDetails?.successfulAlarms || response.alarmDetails?.totalAlarms || 4
alarmCount(alarmDetails) ==
    IF alarmDetails.successfulAlarms # 0 THEN alarmDetails.successfulAlarms
    ELSE IF alarmDetails.totalAlarms # 0 THEN alarmDetails.totalAlarms
    ELSE 4

AlarmFailedMessage(instance) == <<"alarms-failed", instance.InstanceId>>

\* handleConfirmAlarmConfig after its await, and its finally.
AlarmConfigDone(i) ==
    /\ Answered(i)
    /\ calls[i].op = "configureAlarms"
    /\ LET response == configureAlarms(calls[i].resp)
           instance == calls[i].captured.instance
           t == calls[i].args.tbl
       IN  /\ IF ~IsThrown(response) /\ response.success
              THEN /\ instances' = MarkAlarmsConfigured(instances, instance.InstanceId)
                   /\ timers' = timers \o
                         << Timer("addMessage", 500,
                                  <<"alarms-configured", instance.InstanceId,
                                    alarmCount(response.alarmDetails)>>, 0),
                            Timer("refresh", 2000, <<>>, t) >>
              ELSE IF ~IsThrown(response) /\ IsTrue(response, "partialSuccess")
                      /\ Has(response, "alarmDetails")
              THEN /\ timers' = Append(timers,
                          Timer("addMessage", 500,
                                <<"alarms-partial",
                                  response.alarmDetails.successfulAlarms,
                                  response.alarmDetails.totalAlarms,
                                  instance.InstanceId>>, 0))
                   /\ UNCHANGED instances
              ELSE /\ timers' = Append(timers,
                          Timer("addMessage", 500, AlarmFailedMessage(instance), 0))
                   /\ UNCHANGED instances
           /\ tables' = [tables EXCEPT ![t].alarmLoading = FALSE]
    /\ calls' = RemoveAt(calls, i)
    /\ UNCHANGED <<messages, loading, conversationState, accountGroups,
                   selectedAccount, confirmationModal, typeModal, volumeModal>>

(***************************************************************************)
(* Timers, and the backend.                                                *)
(***************************************************************************)
\* The callback of a setTimeout runs.
TimerFire(i) ==
    /\ Due(i)
    /\ timers[i].kind \in {"addMessage", "fetchAccountGroups", "refresh"}
    /\ timers' = RemoveAt(timers, i)
    /\ CASE timers[i].kind = "addMessage" ->
              /\ messages' = addMessage(messages, timers[i].data, "bot")
              /\ UNCHANGED <<tables, calls>>
         [] timers[i].kind = "fetchAccountGroups" ->
              /\ calls' = Append(calls, Call("discoverAccounts", "timer", <<>>))
              /\ UNCHANGED <<messages, tables>>
         [] timers[i].kind = "refresh" ->
              HandleRefreshInstances(timers[i].tbl)
    /\ UNCHANGED <<loading, conversationState, accountGroups, selectedAccount,
                   instances, confirmationModal, typeModal, volumeModal>>

\* The backend answers a call: a 2xx answer with a body, or a failure (no
\* connection, a non-2xx answer).
BackendRespond(i) ==
    /\ i \in 1..Len(calls)
    /\ calls[i].resp.status = "pending"
    /\ \/ \E body \in ResponseBodies(calls[i]) :
             calls' = [calls EXCEPT ![i].resp = [status |-> "ok", body |-> body]]
       \/ calls' = [calls EXCEPT ![i].resp = [status |-> "error"]]
    /\ UNCHANGED <<chatVars, typeModal, volumeModal>>

(***************************************************************************)
(* VolumeConversionModal.  The record holds the props the table passes     *)
(* (show, instance, accountId), the table's volumeLoading flag that        *)
(* onLoading sets, and the component's state, which outlives a close: the  *)
(* component stays mounted and renders nothing while show is false.        *)
(*                                                                         *)
(* A function called later (by a timer, or after an await) sees the state  *)
(* of the render that created it: `closure` below is that state.           *)
(***************************************************************************)
\* The modals are those of the table of the first account selection: the
\* transcript once "resize" was sent, the accounts came and the first account was
\* selected and scanned.
ModalAccount == BackendAccountGroups[1]

ModalMessages ==
    << WelcomeMessage,
       TextMessage("user", <<"input", "resize">>),
       AckMessage("instance-type-change"),
       AccountGroupsMessage(BackendAccountGroups),
       TextMessage("user", <<"selected-account", ModalAccount>>),
       TextMessage("bot", <<"scanning", ModalAccount>>),
       InstancesTableMessage(BackendInstances(ModalAccount, 1), ModalAccount) >>

ModalTable == Len(ModalMessages)

ModalInit ==
    /\ messages = ModalMessages
    /\ loading = FALSE
    /\ conversationState = "instance-management"
    /\ accountGroups = BackendAccountGroups
    /\ selectedAccount = ModalAccount
    /\ instances = BackendInstances(ModalAccount, 1)
    /\ confirmationModal = ClosedConfirmationModal
    /\ tables = (ModalTable :> NewTable)
    /\ calls = <<>>
    /\ timers = <<>>

NewVolumeModal ==
    [show |-> FALSE, instance |-> NoInstance, accountId |-> ModalAccount, volumeLoading |-> FALSE,
     loading |-> FALSE, discovering |-> FALSE, volumes |-> <<>>,
     selectedVolumes |-> <<>>, conversionScope |-> "instance",
     targetVolumeType |-> "gp3", customIops |-> 0, customThroughput |-> 0,
     sourceVolumeTypeFilter |-> "gp2", error |-> "", step |-> "discovery"]

\* volumeTypeOptions.find(opt => opt.value === targetType), as supportsCustom
volumeTypeOptions == {[value |-> "gp2", supportsCustom |-> FALSE]}

Max(a, b) == IF a > b THEN a ELSE b
Min(a, b) == IF a < b THEN a ELSE b

\* calculateOptimalSettings; null is the record with no field.
NoSettings == <<>>

calculateOptimalSettings(volumeSize, targetType) ==
    IF ~\E opt \in volumeTypeOptions : opt.value = targetType /\ opt.supportsCustom
    THEN NoSettings
    ELSE IF targetType = "gp3"
    THEN LET optimalIops == Max(3000, Min(volumeSize * 3, 16000))
         IN  [iops |-> optimalIops,
              throughput |-> Max(125, Min(optimalIops \div 4, 1000))]
    ELSE IF targetType \in {"io1", "io2"}
    THEN [iops |-> Max(100, Min(volumeSize * (IF targetType = "io2" THEN 500 ELSE 100),
                                64000))]
    ELSE NoSettings

\* getConversionBenefits(sourceType, targetType).color === '#10B981'
Recommended(sourceType, targetType) == sourceType = "gp2" /\ targetType = "gp3"

VolumeIds(vols) == [k \in 1..Len(vols) |-> vols[k].VolumeId]

\* The table sets show and instance together: {show: true, instance} or
\* {show: false, instance: null}.
HasInstance(vm) == vm.show

\* What discoverVolumes reads of the render that created it.
Closure(vm) ==
    [show |-> vm.show, instance |-> vm.instance, accountId |-> vm.accountId,
     conversionScope |-> vm.conversionScope,
     sourceVolumeTypeFilter |-> vm.sourceVolumeTypeFilter,
     targetVolumeType |-> vm.targetVolumeType]

\* discoverVolumes up to its await, as created by a render with state `closure`,
\* run when the modal's state is vm.
discoverVolumes(closure, vm) ==
    IF ~HasInstance(closure) \/ closure.accountId = Null
    THEN /\ volumeModal' = vm
         /\ calls' = calls
    ELSE /\ volumeModal' = [vm EXCEPT !.discovering = TRUE, !.error = ""]
         /\ calls' = Append(calls,
               CallWith("findGp2Volumes", "discoverVolumes",
                        [accountId |-> closure.accountId,
                         region |-> closure.instance.Region,
                         instanceId |-> IF closure.conversionScope = "instance"
                                        THEN closure.instance.InstanceId ELSE Null,
                         volumeTypeFilter |-> closure.sourceVolumeTypeFilter],
                        [targetVolumeType |-> closure.targetVolumeType]))

NewTypeModal ==
    [show |-> FALSE, instance |-> NoInstance, newInstanceType |-> "", isLoading |-> FALSE,
     error |-> "", showConfirmation |-> FALSE]

\* Fewer than MaxModalCalls calls and timers are outstanding.
ModalRoom == Len(calls) + Len(timers) < MaxModalCalls

\* The table's Convert Volumes button (handleVolumeConversion), and the modal's
\* effect on [show, instance]: the reset, then discoverVolumes of that render.
VolumeModalOpen(k) ==
    /\ ModalTable \in DOMAIN tables
    /\ k \in 1..Len(instances)
    /\ VolumeConversionEnabled(instances[k], volumeModal.volumeLoading)
    /\ Len(messages) < MaxModalMsgs
    /\ discoverVolumes(
          [volumeModal EXCEPT !.show = TRUE, !.instance = instances[k]],
          [volumeModal EXCEPT !.show = TRUE, !.instance = instances[k],
              !.step = "discovery", !.volumes = <<>>, !.selectedVolumes = <<>>,
              !.error = "", !.conversionScope = "instance", !.targetVolumeType = "gp3",
              !.sourceVolumeTypeFilter = "gp2", !.customIops = 0,
              !.customThroughput = 0])
    /\ UNCHANGED <<chatVars, typeModal>>

\* onHide: the header's close button (never disabled) or the footer's Cancel.
VolumeModalHide ==
    /\ volumeModal.show
    /\ volumeModal' = [volumeModal EXCEPT !.show = FALSE, !.instance = NoInstance]
    /\ UNCHANGED <<chatVars, calls, typeModal>>

\* handleScopeChange: the radio that is not checked (disabled while discovering
\* or loading).
HandleScopeChange(newScope) ==
    /\ volumeModal.show
    /\ ~volumeModal.discovering /\ ~volumeModal.loading
    /\ newScope # volumeModal.conversionScope
    /\ volumeModal' = [volumeModal EXCEPT !.conversionScope = newScope, !.volumes = <<>>,
                          !.selectedVolumes = <<>>, !.step = "discovery"]
    /\ timers' = Append(timers, Timer("discoverVolumes", 100, Closure(volumeModal), 0))
    /\ UNCHANGED <<chatState, calls, typeModal>>

\* handleSourceFilterChange: another option of the select (disabled while
\* discovering or loading), or the Show All button of the no_volumes step.
HandleSourceFilterChange(newFilter) ==
    /\ volumeModal.show
    /\ \/ /\ ~volumeModal.discovering /\ ~volumeModal.loading
          /\ newFilter # volumeModal.sourceVolumeTypeFilter
       \/ /\ volumeModal.step = "no_volumes"
          /\ newFilter = "all"
    /\ volumeModal' = [volumeModal EXCEPT !.sourceVolumeTypeFilter = newFilter,
                          !.volumes = <<>>, !.selectedVolumes = <<>>, !.step = "discovery"]
    /\ timers' = Append(timers, Timer("discoverVolumes", 100, Closure(volumeModal), 0))
    /\ UNCHANGED <<chatState, calls, typeModal>>

\* setTimeout(discoverVolumes, 100) runs.
DiscoverVolumesTimer(i) ==
    /\ Due(i)
    /\ timers[i].kind = "discoverVolumes"
    /\ timers' = RemoveAt(timers, i)
    /\ discoverVolumes(timers[i].data, volumeModal)
    /\ UNCHANGED <<chatState, typeModal>>

\* The Try Again button of the error step.
TryAgain ==
    /\ volumeModal.show
    /\ volumeModal.step = "error"
    /\ discoverVolumes(volumeModal, volumeModal)
    /\ UNCHANGED <<chatVars, typeModal>>

\* The answer to a call of the volume endpoints, as the modal reads it: the
\* wrapped shape {status: "success", data} or the direct shape {success: true, ...}.
actualData(response) ==
    IF IsThrown(response) THEN Thrown
    ELSE IF Get(response, "status") = "success" /\ Has(response, "data")
    THEN response.data
    ELSE IF IsTrue(response, "success") THEN response
    ELSE Thrown

\* discoverVolumes after its await, and its finally.
DiscoverVolumesDone(i) ==
    /\ Answered(i)
    /\ calls[i].op = "findGp2Volumes"
    /\ LET data == actualData(apiCall(calls[i].resp))
           foundVolumes == IF ~Has(data, "volumes") THEN <<>> ELSE data.volumes
           IsRecommended(v) == Recommended(v.VolumeType, calls[i].captured.targetVolumeType)
           recommendedVolumes == SelectSeq(foundVolumes, IsRecommended)
       IN  IF ~IsThrown(data) /\ IsTrue(data, "success")
           THEN IF Len(foundVolumes) = 0
                THEN volumeModal' = [volumeModal EXCEPT !.volumes = foundVolumes,
                                        !.step = "no_volumes", !.discovering = FALSE]
                ELSE volumeModal' = [volumeModal EXCEPT !.volumes = foundVolumes,
                                        !.selectedVolumes =
                                            IF Len(recommendedVolumes) > 0
                                            THEN VolumeIds(recommendedVolumes)
                                            ELSE VolumeIds(foundVolumes),
                                        !.step = "selection", !.discovering = FALSE]
           ELSE volumeModal' = [volumeModal EXCEPT !.error = "discovery-failed",
                                   !.step = "error", !.discovering = FALSE]
    /\ calls' = RemoveAt(calls, i)
    /\ UNCHANGED <<chatVars, typeModal>>

Contains(seq, x) == \E k \in 1..Len(seq) : seq[k] = x

\* handleVolumeSelect(volumeId, checked): the checkbox of a listed volume.
HandleVolumeSelect(volumeId) ==
    /\ volumeModal.show
    /\ volumeModal.step = "selection"
    /\ Contains(VolumeIds(volumeModal.volumes), volumeId)
    /\ LET Other(id) == id # volumeId IN
         volumeModal' = [volumeModal EXCEPT !.selectedVolumes =
              IF ~Contains(@, volumeId) THEN Append(@, volumeId) ELSE SelectSeq(@, Other)]
    /\ UNCHANGED <<chatVars, calls, typeModal>>

\* The Select All and Clear buttons.
SelectAllVolumes ==
    /\ volumeModal.show
    /\ volumeModal.step = "selection"
    /\ volumeModal' = [volumeModal EXCEPT !.selectedVolumes = VolumeIds(volumeModal.volumes)]
    /\ UNCHANGED <<chatVars, calls, typeModal>>

ClearVolumes ==
    /\ volumeModal.show
    /\ volumeModal.step = "selection"
    /\ volumeModal' = [volumeModal EXCEPT !.selectedVolumes = <<>>]
    /\ UNCHANGED <<chatVars, calls, typeModal>>

\* The target type select (disabled while loading) offers volumeTypeOptions.
SetTargetVolumeType(type) ==
    /\ volumeModal.show
    /\ volumeModal.step \in {"selection", "configuration"}
    /\ ~volumeModal.loading
    /\ \E opt \in volumeTypeOptions : opt.value = type
    /\ type # volumeModal.targetVolumeType
    /\ volumeModal' = [volumeModal EXCEPT !.targetVolumeType = type]
    /\ UNCHANGED <<chatVars, calls, typeModal>>

RECURSIVE SumSizes(_)
SumSizes(vols) == IF Len(vols) = 0 THEN 0 ELSE Head(vols).Size + SumSizes(Tail(vols))

\* Math.round(sum / n) for sum >= 0, n > 0
RoundDiv(sum, n) == (2 * sum + n) \div (2 * n)

\* proceedToConfiguration: the Next button of the selection step (disabled with
\* nothing selected).
ProceedToConfiguration ==
    /\ volumeModal.show
    /\ volumeModal.step = "selection"
    /\ Len(volumeModal.selectedVolumes) > 0
    /\ LET IsSelected(v) == Contains(volumeModal.selectedVolumes, v.VolumeId)
           selectedVolumeObjects == SelectSeq(volumeModal.volumes, IsSelected)
           avgSize == RoundDiv(SumSizes(selectedVolumeObjects), Len(selectedVolumeObjects))
           optimal == IF Len(selectedVolumeObjects) > 0
                      THEN calculateOptimalSettings(avgSize, volumeModal.targetVolumeType)
                      ELSE NoSettings
       IN  volumeModal' = [volumeModal EXCEPT
              !.customIops = IF "iops" \in DOMAIN optimal THEN optimal.iops ELSE @,
              !.customThroughput = IF "throughput" \in DOMAIN optimal
                                   THEN optimal.throughput ELSE @,
              !.error = "", !.step = "configuration"]
    /\ UNCHANGED <<chatVars, calls, typeModal>>

\* The Back button of the configuration step (disabled while loading).
BackToSelection ==
    /\ volumeModal.show
    /\ volumeModal.step = "configuration"
    /\ ~volumeModal.loading
    /\ volumeModal' = [volumeModal EXCEPT !.step = "selection"]
    /\ UNCHANGED <<chatVars, calls, typeModal>>

\* handleConvert up to its await: the Convert button of the configuration step
\* (disabled while loading or with nothing selected).
HandleConvert ==
    /\ volumeModal.show
    /\ volumeModal.step = "configuration"
    /\ ~volumeModal.loading
    /\ Len(volumeModal.selectedVolumes) > 0
    /\ volumeModal' = [volumeModal EXCEPT !.loading = TRUE, !.volumeLoading = TRUE]
    /\ calls' = Append(calls,
          CallWith("convertGp2ToGp3Volumes", "handleConvert",
               [accountId |-> volumeModal.accountId,
                region |-> volumeModal.instance.Region,
                volumeIds |-> volumeModal.selectedVolumes,
                newVolumeType |-> volumeModal.targetVolumeType,
                targetIops |-> volumeModal.customIops,
                targetThroughput |-> volumeModal.customThroughput],
               [instance |-> volumeModal.instance, accountId |-> volumeModal.accountId]))
    /\ UNCHANGED <<chatVars, typeModal>>

\* handleVolumeConversionSuccess of the table, as the modal's render holds it:
\* the timers it sets.
handleVolumeConversionSuccess(captured, conversionResults) ==
    << Timer("addMessage", 500,
             <<"volume-conversion-initiated", captured.instance.InstanceId,
               captured.accountId, conversionResults.totalVolumes>>, 0),
       Timer("refresh", 3000, <<>>, ModalTable) >>

\* handleConvert after its await, and its finally.  On success the modal calls
\* onSuccess (handleVolumeConversionSuccess, which closes the modal) and onHide.
ConvertDone(i) ==
    /\ Answered(i)
    /\ calls[i].op = "convertGp2ToGp3Volumes"
    /\ LET data == actualData(apiCall(calls[i].resp)) IN
         IF /\ ~IsThrown(data)
            /\ IsTrue(data, "success")
            /\ Has(data, "summary")
            /\ data.summary.successfulConversions > 0
         THEN /\ volumeModal' = [volumeModal EXCEPT !.show = FALSE,
                                    !.instance = NoInstance,
                                    !.loading = FALSE, !.volumeLoading = FALSE]
              /\ timers' = timers \o
                    handleVolumeConversionSuccess(calls[i].captured, data.summary)
         ELSE /\ volumeModal' = [volumeModal EXCEPT !.error = "conversion-failed",
                                    !.loading = FALSE, !.volumeLoading = FALSE]
              /\ timers' = timers
    /\ calls' = RemoveAt(calls, i)
    /\ UNCHANGED <<chatState, typeModal>>

(***************************************************************************)
(* InstanceTypeChangeModal.  The record holds the table's                  *)
(* instanceTypeModal {show, instance} and the component's state.           *)
(***************************************************************************)
InstanceTypes == {"t2.micro", "t3.small"}

\* handleInstanceTypeChange of the table: the Change Type button of a row of the
\* shared list (disabled for a terminated instance).
TypeModalOpen(k) ==
    /\ ModalTable \in DOMAIN tables
    /\ k \in 1..Len(instances)
    /\ TypeChangeEnabled(instances[k])
    /\ Len(messages) < MaxModalMsgs
    /\ typeModal' = [typeModal EXCEPT !.show = TRUE, !.instance = instances[k]]
    /\ UNCHANGED <<chatVars, calls, volumeModal>>

\* The select of the type selection view; the option of the current type is
\* disabled.
SetNewInstanceType(type) ==
    /\ typeModal.show /\ ~typeModal.showConfirmation /\ ~typeModal.isLoading
    /\ type \in InstanceTypes \cup {""}
    /\ type # typeModal.instance.InstanceType
    /\ type # typeModal.newInstanceType
    /\ typeModal' = [typeModal EXCEPT !.newInstanceType = type]
    /\ UNCHANGED <<chatVars, calls, volumeModal>>

\* handleTypeSelection: the Next: Confirm Change button.
HandleTypeSelection ==
    /\ typeModal.show /\ ~typeModal.showConfirmation /\ ~typeModal.isLoading
    /\ typeModal' =
          IF typeModal.newInstanceType = ""
          THEN [typeModal EXCEPT !.error = "select-new-type"]
          ELSE IF typeModal.newInstanceType = typeModal.instance.InstanceType
          THEN [typeModal EXCEPT !.error = "select-different-type"]
          ELSE [typeModal EXCEPT !.error = "", !.showConfirmation = TRUE]
    /\ UNCHANGED <<chatVars, calls, volumeModal>>

\* The Go Back button of the confirmation view.
TypeModalGoBack ==
    /\ typeModal.show /\ typeModal.showConfirmation /\ ~typeModal.isLoading
    /\ typeModal' = [typeModal EXCEPT !.showConfirmation = FALSE]
    /\ UNCHANGED <<chatVars, calls, volumeModal>>

resetModal(tm) ==
    [tm EXCEPT !.newInstanceType = "", !.error = "", !.showConfirmation = FALSE,
               !.isLoading = FALSE]

\* handleClose: the close and Cancel buttons of the type selection view.
TypeModalClose ==
    /\ typeModal.show /\ ~typeModal.showConfirmation /\ ~typeModal.isLoading
    /\ typeModal' = [resetModal(typeModal) EXCEPT !.show = FALSE, !.instance = NoInstance]
    /\ UNCHANGED <<chatVars, calls, volumeModal>>

\* executeInstanceTypeChange up to its await: the Yes, Change Instance Type button
\* of the confirmation view.
ExecuteInstanceTypeChange ==
    /\ typeModal.show /\ typeModal.showConfirmation /\ ~typeModal.isLoading
    /\ typeModal' = [typeModal EXCEPT !.isLoading = TRUE, !.error = ""]
    /\ calls' = Append(calls,
          CallWith("changeInstanceType", "executeInstanceTypeChange",
               [instanceId |-> typeModal.instance.InstanceId,
                accountId |-> ModalAccount,
                region |-> typeModal.instance.Region,
                newInstanceType |-> typeModal.newInstanceType],
               [instance |-> typeModal.instance, accountId |-> ModalAccount]))
    /\ UNCHANGED <<chatVars, volumeModal>>

\* handleInstanceTypeChangeSuccess of the table: the timers it sets.
handleInstanceTypeChangeSuccess(captured) ==
    << Timer("addMessage", 500,
             <<"type-change-completed", captured.instance.InstanceId,
               captured.accountId>>, 0),
       Timer("refresh", 2000, <<>>, ModalTable) >>

\* executeInstanceTypeChange after its await, and its finally.
TypeChangeDone(i) ==
    /\ Answered(i)
    /\ calls[i].op = "changeInstanceType"
    /\ LET result == apiCall(calls[i].resp) IN
         IF /\ ~IsThrown(result)
            /\ result.status = "success"
            /\ IsTrue(result.data, "success")
         THEN /\ typeModal' = [resetModal(typeModal) EXCEPT !.show = FALSE,
                                  !.instance = NoInstance]
              /\ timers' = timers \o handleInstanceTypeChangeSuccess(calls[i].captured)
         ELSE /\ typeModal' = [typeModal EXCEPT !.error = "type-change-failed",
                                  !.showConfirmation = FALSE, !.isLoading = FALSE]
              /\ timers' = timers
    /\ calls' = RemoveAt(calls, i)
    /\ UNCHANGED <<chatState, volumeModal>>

(***************************************************************************)
(* The specification of the chat widget.                                   *)
(***************************************************************************)
ChatInputs == {"  ", "resize", "configure cloudwatch alarm", "hello"}

Init ==
    /\ ChatInit
    /\ typeModal = NewTypeModal
    /\ volumeModal = NewVolumeModal

Next ==
    \/ \E v \in ChatInputs : HandleSend(v)
    \/ \E i \in 1..Len(calls) : DiscoverAccountsDone(i)
    \/ \E i \in 1..Len(calls) : SendMessageDone(i)
    \/ \E a \in AccountIds : HandleAccountSelect(a)
    \/ \E i \in 1..Len(calls) : SelectInstancesDone(i)
    \/ \E t \in DOMAIN tables : Len(messages) < MaxMsgs /\ RefreshClick(t)
    \/ \E i \in 1..Len(calls) : RefreshInstancesDone(i)
    \/ \E t \in DOMAIN tables : \E k \in 1..Len(instances) : RowClick(t, k)
    \/ HandleCancelDeployment
    \/ HandleConfirmDeployment
    \/ \E i \in 1..Len(calls) : DeployDone(i)
    \/ \E i \in 1..Len(timers) : TimerFire(i)
    \/ \E i \in 1..Len(calls) : BackendRespond(i)

Spec == Init /\ [][Next]_vars

(***************************************************************************)
(* The specification of the volume conversion modal of the first table,    *)
(* with what its success sets going: the transcript message and the        *)
(* delayed refresh of the table.                                           *)
(***************************************************************************)
VolumeFilters == {"gp2", "all"}

InitVolumeModal ==
    /\ ModalInit
    /\ typeModal = NewTypeModal
    /\ volumeModal = NewVolumeModal

NextVolumeModal ==
    \/ \E k \in 1..Len(instances) :
          ~volumeModal.show /\ ~typeModal.show /\ ModalRoom /\ VolumeModalOpen(k)
    \/ VolumeModalHide
    \/ \E scope \in {"instance", "region"} : ModalRoom /\ HandleScopeChange(scope)
    \/ \E f \in VolumeFilters : ModalRoom /\ HandleSourceFilterChange(f)
    \/ \E i \in 1..Len(timers) : DiscoverVolumesTimer(i)
    \/ ModalRoom /\ TryAgain
    \/ \E i \in 1..Len(calls) : DiscoverVolumesDone(i)
    \/ \E v \in 1..Len(BackendVolumes) : HandleVolumeSelect(BackendVolumes[v].VolumeId)
    \/ SelectAllVolumes
    \/ ClearVolumes
    \/ \E type \in {"gp2", "gp3"} : SetTargetVolumeType(type)
    \/ ProceedToConfiguration
    \/ BackToSelection
    \/ ModalRoom /\ HandleConvert
    \/ \E i \in 1..Len(calls) : ConvertDone(i)
    \/ \E i \in 1..Len(timers) : TimerFire(i)
    \/ \E i \in 1..Len(calls) : RefreshInstancesDone(i)
    \/ \E i \in 1..Len(calls) : BackendRespond(i)

SpecVolumeModal == InitVolumeModal /\ [][NextVolumeModal]_vars

(***************************************************************************)
(* The specification of overlapping discoveries of the volume modal: the   *)
(* modal is closed and opened again while findGp2Volumes calls of earlier  *)
(* renders are unanswered, up to MaxDiscoveries calls at a time.           *)
(***************************************************************************)
NextDiscovery ==
    \/ \E k \in 1..Len(instances) :
          ~volumeModal.show /\ Len(calls) < MaxDiscoveries /\ VolumeModalOpen(k)
    \/ VolumeModalHide
    \/ \E i \in 1..Len(calls) : DiscoverVolumesDone(i)
    \/ \E v \in 1..Len(BackendVolumes) : HandleVolumeSelect(BackendVolumes[v].VolumeId)
    \/ ProceedToConfiguration
    \/ \E i \in 1..Len(calls) : BackendRespond(i)

SpecDiscovery == InitVolumeModal /\ [][NextDiscovery]_vars

(***************************************************************************)
(* The specification of the instance type change modal of the first table. *)
(***************************************************************************)
NextTypeModal ==
    \/ \E k \in 1..Len(instances) :
          ~typeModal.show /\ ~volumeModal.show /\ TypeModalOpen(k)
    \/ \E type \in InstanceTypes \cup {""} : SetNewInstanceType(type)
    \/ HandleTypeSelection
    \/ TypeModalGoBack
    \/ TypeModalClose
    \/ ModalRoom /\ ExecuteInstanceTypeChange
    \/ \E i \in 1..Len(calls) : TypeChangeDone(i)
    \/ \E i \in 1..Len(timers) : TimerFire(i)
    \/ \E i \in 1..Len(calls) : RefreshInstancesDone(i)
    \/ \E i \in 1..Len(calls) : BackendRespond(i)

SpecTypeModal == InitVolumeModal /\ [][NextTypeModal]_vars

(***************************************************************************)
(* The specification of the first table: the Refresh Status button, the    *)
(* alarm configuration, and the messages and refreshes they set going.     *)
(***************************************************************************)
NextTable ==
    \/ \E t \in DOMAIN tables : Len(messages) < MaxTableMsgs /\ RefreshClick(t)
    \/ \E i \in 1..Len(calls) : RefreshInstancesDone(i)
    \/ \E t \in DOMAIN tables : \E k \in 1..Len(instances) :
          Len(messages) < MaxTableMsgs /\ HandleAlarmConfiguration(t, k)
    \/ \E t \in DOMAIN tables : AlarmModalCancel(t)
    \/ \E t \in DOMAIN tables : HandleConfirmAlarmConfig(t)
    \/ \E i \in 1..Len(calls) : AlarmConfigDone(i)
    \/ \E i \in 1..Len(timers) : TimerFire(i)
    \/ \E i \in 1..Len(calls) : BackendRespond(i)

SpecTable == InitVolumeModal /\ [][NextTable]_vars

(***************************************************************************)
(* The specification of two tables: the transcript once "resize" was sent, *)
(* the accounts came, the second account was selected and scanned, and     *)
(* then the first.  Both tables render the shared list, each with the      *)
(* accountId of its message; the user configures alarms in either.         *)
(***************************************************************************)
OtherAccount == BackendAccountGroups[2]

TwoTablesMessages ==
    << WelcomeMessage,
       TextMessage("user", <<"input", "resize">>),
       AckMessage("instance-type-change"),
       AccountGroupsMessage(BackendAccountGroups),
       TextMessage("user", <<"selected-account", OtherAccount>>),
       TextMessage("bot", <<"scanning", OtherAccount>>),
       InstancesTableMessage(BackendInstances(OtherAccount, 1), OtherAccount),
       TextMessage("user", <<"selected-account", ModalAccount>>),
       TextMessage("bot", <<"scanning", ModalAccount>>),
       InstancesTableMessage(BackendInstances(ModalAccount, 1), ModalAccount) >>

InitTwoTables ==
    /\ messages = TwoTablesMessages
    /\ loading = FALSE
    /\ conversationState = "instance-management"
    /\ accountGroups = BackendAccountGroups
    /\ selectedAccount = ModalAccount
    /\ instances = BackendInstances(ModalAccount, 1)
    /\ confirmationModal = ClosedConfirmationModal
    /\ tables = (7 :> NewTable) @@ (10 :> NewTable)
    /\ calls = <<>>
    /\ timers = <<>>
    /\ typeModal = NewTypeModal
    /\ volumeModal = NewVolumeModal

NextTwoTables ==
    \/ \E t \in DOMAIN tables : \E k \in 1..Len(instances) :
          Len(messages) < MaxTwoTablesMsgs /\ HandleAlarmConfiguration(t, k)
    \/ \E i \in 1..Len(calls) : RefreshInstancesDone(i)
    \/ \E t \in DOMAIN tables : AlarmModalCancel(t)
    \/ \E t \in DOMAIN tables : HandleConfirmAlarmConfig(t)
    \/ \E i \in 1..Len(calls) : AlarmConfigDone(i)
    \/ \E i \in 1..Len(timers) : TimerFire(i)
    \/ \E i \in 1..Len(calls) : BackendRespond(i)

SpecTwoTables == InitTwoTables /\ [][NextTwoTables]_vars

(***************************************************************************)
(* The specification of the modals of the first table and of the chat      *)
(* widget: the user opens and closes the four modals with the controls of  *)
(* the table, each while that modal is closed.  No handler looks at        *)
(* another modal's show flag and no control of the table is disabled while *)
(* a modal is shown; the overlay of a shown modal covers the table for the *)
(* pointer, and the keyboard still reaches the table's controls (the focus *)
(* stays on the button that opened the modal).                             *)
(***************************************************************************)
NextModals ==
    \/ \E t \in DOMAIN tables : \E k \in 1..Len(instances) : RowClick(t, k)
    \/ HandleCancelDeployment
    \/ \E t \in DOMAIN tables : \E k \in 1..Len(instances) :
          HandleAlarmConfiguration(t, k)
    \/ \E t \in DOMAIN tables : AlarmModalCancel(t)
    \/ \E k \in 1..Len(instances) : ~typeModal.show /\ TypeModalOpen(k)
    \/ TypeModalClose
    \/ \E k \in 1..Len(instances) :
          ~volumeModal.show /\ ModalRoom /\ VolumeModalOpen(k)
    \/ VolumeModalHide
    \/ \E i \in 1..Len(calls) : DiscoverVolumesDone(i)
    \/ \E i \in 1..Len(calls) : BackendRespond(i)

SpecModals == InitVolumeModal /\ [][NextModals]_vars

(***************************************************************************)
(* The specification of the rendering of the first table: the shared list  *)
(* is any list the backend may have answered, of up to MaxInstances        *)
(* instances in any State and with any configuration, and the user clicks  *)
(* rows.                                                                   *)
(***************************************************************************)
InstanceStates == {"running", "stopped", "terminated"}

InstanceIdOf == <<"i-1", "i-2", "i-3", "i-4", "i-5", "i-6">>

\* Alarms are configured on instances that have the agent.
InstanceKinds ==
    {kind \in [state : InstanceStates, cw : BOOLEAN, alarms : BOOLEAN] :
        kind.alarms => kind.cw}

InstanceLists ==
    UNION {{[k \in 1..n |->
                Instance(InstanceIdOf[k], f[k].state, f[k].cw, f[k].alarms, "t2.micro")]
              : f \in [1..n -> InstanceKinds]}
           : n \in 0..MaxInstances}

InitSort ==
    /\ instances \in InstanceLists
    /\ messages = [ModalMessages EXCEPT
                      ![ModalTable] = InstancesTableMessage(instances, ModalAccount)]
    /\ loading = FALSE
    /\ conversationState = "instance-management"
    /\ accountGroups = BackendAccountGroups
    /\ selectedAccount = ModalAccount
    /\ confirmationModal = ClosedConfirmationModal
    /\ tables = (ModalTable :> NewTable)
    /\ calls = <<>>
    /\ timers = <<>>
    /\ typeModal = NewTypeModal
    /\ volumeModal = NewVolumeModal

NextSort ==
    \/ \E t \in DOMAIN tables : \E k \in 1..Len(instances) : RowClick(t, k)
    \/ HandleCancelDeployment

SpecSort == InitSort /\ [][NextSort]_vars

(***************************************************************************)
(* The specification of the classifier: the first turn of a conversation,  *)
(* over the inputs made of one to MaxWords words of Words with a space     *)
(* between them (the empty word makes leading, trailing and doubled        *)
(* spaces, and the blank inputs).                                          *)
(***************************************************************************)
Words == {"", "hello", "GP3", "Change", "configure", "cloudwatch", "alarm"}

RECURSIVE Join(_)
Join(ws) ==
    IF Len(ws) = 0 THEN ""
    ELSE IF Len(ws) = 1 THEN ws[1]
    ELSE ws[1] \o " " \o Join(Tail(ws))

IntentInputs == {Join(ws) : ws \in UNION {[1..n -> Words] : n \in 1..MaxWords}}

NextIntent ==
    \/ \E v \in IntentInputs : messages = <<WelcomeMessage>> /\ HandleSend(v)
    \/ \E i \in 1..Len(calls) : DiscoverAccountsDone(i)
    \/ \E i \in 1..Len(calls) : SendMessageDone(i)
    \/ \E i \in 1..Len(calls) : BackendRespond(i)

SpecIntent == Init /\ [][NextIntent]_vars

(***************************************************************************)
(* Properties.                                                             *)
(***************************************************************************)
\* c and d are the same character, or the two cases of one letter
SameLetter(c, d) ==
    \/ c = d
    \/ \E j \in 1..Len(UpperChars) :
          {c, d} = {SubSeq(UpperChars, j, j), SubSeq(LowerChars, j, j)}

\* keyword occurs in text as a substring, whatever the case of text's letters
ContainsIgnoringCase(text, keyword) ==
    \E i \in 0..(Len(text) - Len(keyword)) :
       \A p \in 1..Len(keyword) :
          SameLetter(SubSeq(text, i + p, i + p), SubSeq(keyword, p, p))

IntentOrder ==
    << "volume-conversion", "instance-type-change", "cloudwatch-configuration",
       "alarm-configuration" >>

KeywordList(intent) ==
    CASE intent = "volume-conversion" -> VolumeConversionKeywords
      [] intent = "instance-type-change" -> InstanceTypeChangeKeywords
      [] intent = "cloudwatch-configuration" -> CloudWatchKeywords
      [] intent = "alarm-configuration" -> AlarmKeywords

HasKeyword(text, intent) ==
    \E keyword \in KeywordList(intent) : ContainsIgnoringCase(text, keyword)

\* The first intent of IntentOrder with a keyword in text; generic chat if none.
FirstMatchingIntent(text) ==
    LET matching == {p \in 1..Len(IntentOrder) : HasKeyword(text, IntentOrder[p])}
    IN  IF matching = {} THEN "generic-chat"
        ELSE IntentOrder[CHOOSE p \in matching : \A q \in matching : p <= q]

\* This step is a turn: it appends the user's message for a sent input.
IsTurn ==
    /\ Len(messages') > Len(messages)
    /\ messages'[Len(messages) + 1].from = "user"
    /\ messages'[Len(messages) + 1].text[1] = "input"

TurnText == messages'[Len(messages) + 1].text[2]

\* This step, a turn, takes the branch of `intent` and no other: an action intent
\* acknowledges with its own message and asks for the accounts, generic chat
\* sends the text to the backend.
RoutedAs(intent) ==
    /\ Len(calls') = Len(calls) + 1
    /\ IF intent = "generic-chat"
       THEN /\ Len(messages') = Len(messages) + 1
            /\ calls'[Len(calls')].op = "sendMessage"
            /\ calls'[Len(calls')].args.message = TurnText
       ELSE /\ Len(messages') = Len(messages) + 2
            /\ messages'[Len(messages')].from = "bot"
            /\ messages'[Len(messages')].text = <<"ack", intent>>
            /\ calls'[Len(calls')].op = "discoverAccounts"

\* C3: every turn (a non-blank input sent) takes exactly the branch of the first
\* intent, in the order volume-conversion, instance-type-change,
\* cloudwatch-configuration, alarm-configuration, whose keyword list has a
\* case-insensitive substring match in the input; generic chat (sendMessage) only
\* when no list matches.
C3_FirstMatchingIntentRouted ==
    [][IsTurn => RoutedAs(FirstMatchingIntent(TurnText))]_vars

\* C3 witness: an input with a volume-conversion keyword in upper case and a
\* keyword of two more lists was acknowledged as volume-conversion.
C3_Witness ==
    /\ Len(messages) >= 3
    /\ messages[2].text = <<"input", "Change GP3 alarm">>
    /\ messages[3].text = <<"ack", "volume-conversion">>

\* C4 as stated: every turn whose input has an alarm keyword and a
\* cloudwatch-configuration keyword takes the cloudwatch-configuration branch.
C4_AlarmAndCloudWatchIsCloudWatch ==
    [][(/\ IsTurn
        /\ HasKeyword(TurnText, "alarm-configuration")
        /\ HasKeyword(TurnText, "cloudwatch-configuration"))
       => RoutedAs("cloudwatch-configuration")]_vars

\* C4 amended: every turn whose input has an alarm keyword and a
\* cloudwatch-configuration keyword, and no volume-conversion or
\* instance-type-change keyword, takes the cloudwatch-configuration branch.
C4_AlarmAndCloudWatchOnlyIsCloudWatch ==
    [][(/\ IsTurn
        /\ HasKeyword(TurnText, "alarm-configuration")
        /\ HasKeyword(TurnText, "cloudwatch-configuration")
        /\ ~HasKeyword(TurnText, "volume-conversion")
        /\ ~HasKeyword(TurnText, "instance-type-change"))
       => RoutedAs("cloudwatch-configuration")]_vars

\* C4 witness: 'configure cloudwatch alarm' was acknowledged as
\* cloudwatch-configuration.
C4_Witness ==
    /\ Len(messages) >= 3
    /\ messages[2].text = <<"input", "configure cloudwatch alarm">>
    /\ messages[3].text = <<"ack", "cloudwatch-configuration">>

\* This step ends the i-th call in flight: the function awaiting it resumes.
Completes(i) ==
    /\ i \in 1..Len(calls)
    /\ calls[i].resp.status # "pending"
    /\ Len(calls') = Len(calls) - 1
    /\ calls' = RemoveAt(calls, i)

Succeeded(i) == calls[i].resp.status = "ok"

\* This step appends exactly one message to the transcript.
AppendsOne ==
    /\ Len(messages') = Len(messages) + 1
    /\ SubSeq(messages', 1, Len(messages)) = messages

Appended == messages'[Len(messages')]

\* C1 as stated: when a refresh of a table completes with the backend's answer,
\* the instances payload of that table's transcript message equals the shared
\* instance list.
C1_RefreshUpdatesTableMessage ==
    [][\A i \in 1..Len(calls) :
          (/\ Completes(i)
           /\ calls[i].origin = "handleRefreshInstances"
           /\ Succeeded(i))
          => messages'[calls[i].args.tbl].data.instances = instances']_vars

MutatingOps ==
    {"deployCloudWatchAgent", "changeInstanceType", "convertGp2ToGp3Volumes",
     "configureAlarms"}

\* This step issues a mutating backend call.
IssuesMutatingCall ==
    /\ Len(calls') = Len(calls) + 1
    /\ calls'[Len(calls')].op \in MutatingOps

\* C2 as stated, for the volume conversion modal: no mutating call is issued from
\* the selection or the configuration step of the modal.
C2_NoMutatingCallFromConfiguration ==
    [][IssuesMutatingCall => volumeModal.step \notin {"selection", "configuration"}]_vars

IsActionTurn(m) ==
    /\ m \in 1..(Len(messages) - 1)
    /\ messages[m].from = "user"
    /\ messages[m].text[1] = "input"
    /\ FirstMatchingIntent(messages[m].text[2]) # "generic-chat"
    /\ messages[m + 1].from = "bot"
    /\ messages[m + 1].text = <<"ack", FirstMatchingIntent(messages[m].text[2])>>

\* C5: when the discoverAccounts call of a handleSend that took an action intent's
\* branch succeeds, exactly one message is appended, the account-groups message
\* with the accounts returned, after the user's message and the acknowledgement
\* of the turn, and conversationState becomes account-selection.
C5_AccountsSucceedThenAccountSelection ==
    [][\A i \in 1..Len(calls) :
          (/\ Completes(i)
           /\ calls[i].op = "discoverAccounts"
           /\ calls[i].origin = "handleSend"
           /\ Succeeded(i))
          => /\ AppendsOne
             /\ Appended.from = "bot"
             /\ Appended.type = "account-groups"
             /\ Appended.data = calls[i].resp.body.accountGroups
             /\ \E m \in 1..Len(messages) : IsActionTurn(m)
             /\ conversationState' = "account-selection"]_vars

\* C5 witness: the account-groups message came last, after a turn with an action
\* intent, when an instances table was already in the transcript (the state was
\* instance-management before), and the state is account-selection.
C5_Witness ==
    /\ conversationState = "account-selection"
    /\ messages[Len(messages)].type = "account-groups"
    /\ \E t \in 1..Len(messages) : \E m \in (t + 1)..Len(messages) :
          messages[t].type = "instances-table" /\ IsActionTurn(m)

\* C6: when the discoverInstances call of an account selection succeeds, exactly
\* one message is appended, the instances-table message with the selected
\* accountId and the instances returned, the shared list becomes the list
\* returned, and conversationState becomes instance-management.
C6_InstancesSucceedThenTable ==
    [][\A i \in 1..Len(calls) :
          (/\ Completes(i)
           /\ calls[i].op = "discoverInstances"
           /\ calls[i].origin = "handleAccountSelect"
           /\ Succeeded(i))
          => /\ AppendsOne
             /\ Appended.from = "bot"
             /\ Appended.type = "instances-table"
             /\ Appended.data.accountId = calls[i].args.accountId
             /\ Appended.data.instances = calls[i].resp.body.instances
             /\ instances' = calls[i].resp.body.instances
             /\ conversationState' = "instance-management"]_vars

\* C6 witness: the table of the second account came last while the first account,
\* selected after it, is the selected one; the shared list is the table's.
C6_Witness ==
    /\ conversationState = "instance-management"
    /\ messages[Len(messages)].type = "instances-table"
    /\ messages[Len(messages)].data.accountId = BackendAccountGroups[2]
    /\ messages[Len(messages)].data.instances = instances
    /\ selectedAccount = BackendAccountGroups[1]

RunningWithAgent(insts, configured) ==
    Cardinality({k \in 1..Len(insts) :
                    insts[k].State = "running"
                    /\ insts[k].CloudWatchConfigured = configured})

C8_DiscoveryFailureLeavesState ==
    [][\A i \in 1..Len(calls) :
          (/\ Completes(i)
           /\ ~Succeeded(i)
           /\ \/ calls[i].op = "discoverAccounts" /\ calls[i].origin = "handleSend"
              \/ calls[i].op = "discoverInstances"
                 /\ calls[i].origin = "handleAccountSelect")
          => /\ AppendsOne
             /\ Appended \in {AccountsApology, InstancesApology}
             /\ UNCHANGED <<conversationState, accountGroups, instances>>
             /\ IF calls[i].op = "discoverInstances"
                THEN selectedAccount' = calls[i].captured.selectedAccount
                ELSE UNCHANGED selectedAccount]_vars

ConversationVars == <<conversationState, selectedAccount, accountGroups, instances>>

C10_IntentTagSchedulesDiscovery ==
    [][\A i \in 1..Len(calls) :
          (/\ Completes(i)
           /\ calls[i].op = "sendMessage"
           /\ Succeeded(i)
           /\ calls[i].resp.body.intent \in RecognizedIntents)
          => \/ \E t \in 1..Len(timers') : timers'[t].kind = "fetchAccountGroups"
             \/ \E c \in 1..Len(calls') : calls'[c].op = "discoverAccounts"]_vars

\* C11 as stated, for the agent deployment: when a deployCloudWatchAgent call ends
\* with the backend's 2xx answer, one bot message describing the result is
\* appended and a refresh of the instance list is under way: a discoverInstances
\* call is issued, or the timer that issues it is set.
C11_MutationThenRefresh ==
    [][\A i \in 1..Len(calls) :
          (/\ Completes(i)
           /\ calls[i].op = "deployCloudWatchAgent"
           /\ Succeeded(i))
          => /\ AppendsOne
             /\ Appended.from = "bot"
             /\ \/ \E t \in 1..Len(timers') : timers'[t].kind = "refresh"
                \/ \E c \in 1..Len(calls') : calls'[c].op = "discoverInstances"]_vars

\* C12 as stated: a refresh that completes with the backend's answer makes the
\* shared list the list answered (so a second refresh with unchanged backend data
\* leaves the list of the first), and no refresh appends a message that repeats
\* one of the transcript.  The bot's messages of a refresh carry the time of day,
\* which the model leaves out, so only the user's message is compared.
C12_RefreshTwiceNoDuplicate ==
    [][/\ \A i \in 1..Len(calls) :
             (/\ Completes(i)
              /\ calls[i].origin = "handleRefreshInstances"
              /\ Succeeded(i))
             => instances' = calls[i].resp.body.instances
       /\ (AppendsOne /\ Appended = TextMessage("user", <<"refresh-instance-status">>))
             => \A m \in 1..Len(messages) : messages[m] # Appended]_vars

\* This step runs the j-th timer.
Runs(j) ==
    /\ j \in 1..Len(timers)
    /\ Len(timers') = Len(timers) - 1
    /\ timers' = RemoveAt(timers, j)

IsPartialAnswer(call) ==
    /\ call.op = "configureAlarms"
    /\ call.resp.status = "ok"
    /\ call.resp.body.httpStatus = 207
    /\ IsTrue(call.resp.body, "partialSuccess")

Clamp(x, lo, hi) == IF x < lo THEN lo ELSE IF x > hi THEN hi ELSE x

\* The average size of the selected volumes of the modal, rounded to the nearest
\* integer (a half rounds up).
RoundedAverageSize ==
    LET sel == {k \in 1..Len(volumeModal.volumes) :
                   \E j \in 1..Len(volumeModal.selectedVolumes) :
                      volumeModal.selectedVolumes[j] = volumeModal.volumes[k].VolumeId}
        sum == SumSizes([k \in 1..Len(volumeModal.volumes) |->
                            IF k \in sel THEN volumeModal.volumes[k]
                            ELSE [volumeModal.volumes[k] EXCEPT !.Size = 0]])
        n == Cardinality(sel)
    IN  CHOOSE r \in 0..sum : 2 * r * n - n <= 2 * sum /\ 2 * sum < 2 * r * n + n

\* C14 as stated: the step from the selection step to the configuration step with
\* target type gp3 sets the IOPS to clamp(3 * S, 3000, 16000) and the throughput
\* to clamp(floor(IOPS / 4), 125, 1000), S being the rounded average size of the
\* selected volumes.
C14_DefaultsFromAverageSize ==
    [][(/\ volumeModal.step = "selection"
        /\ volumeModal'.step = "configuration"
        /\ volumeModal.targetVolumeType = "gp3")
       => LET iops == Clamp(3 * RoundedAverageSize, 3000, 16000) IN
            /\ volumeModal'.customIops = iops
            /\ volumeModal'.customThroughput = Clamp(iops \div 4, 125, 1000)]_vars

\* The status tier of an instance: 0 without the agent, 1 with the agent and
\* without alarms, 2 with both.
Tier(instance) ==
    IF ~instance.CloudWatchConfigured THEN 0
    ELSE IF ~instance.AlarmsConfigured THEN 1
    ELSE 2

\* rows holds the instances of list, each once.
IsPermutation(rows, list) ==
    /\ Len(rows) = Len(list)
    /\ \A k \in 1..Len(list) : \E r \in 1..Len(rows) : rows[r] = list[k]

\* C15: in every order the table may render a list, the rows are the instances of
\* the list and every instance of a lower tier comes before every instance of a
\* higher tier, whatever the States and the order of the list.
C15_TiersAscending ==
    \A rows \in sortedInstances(instances) :
       /\ IsPermutation(rows, instances)
       /\ \A i, j \in 1..Len(rows) : i < j => Tier(rows[i]) <= Tier(rows[j])

\* C15 witness: the list of tiers 2, 0, 1 with States running, stopped, running.
C15_Witness ==
    /\ Len(instances) = 3
    /\ <<Tier(instances[1]), Tier(instances[2]), Tier(instances[3])>> = <<2, 0, 1>>
    /\ <<instances[1].State, instances[2].State, instances[3].State>>
          = <<"running", "stopped", "running">>
    /\ \A rows \in sortedInstances(instances) :
          rows = <<instances[2], instances[3], instances[1]>>

\* The place of an instance in the shared list.
PlaceOf(instance) == CHOOSE k \in 1..Len(instances) : instances[k] = instance

\* C16 as stated: in every order the table may render a list, within one tier no
\* non-running instance comes before a running one, and two instances that are
\* both running or both non-running come in the order of the list.
C16_RunningFirstThenStable ==
    \A rows \in sortedInstances(instances) :
       \A i, j \in 1..Len(rows) :
          (i < j /\ Tier(rows[i]) = Tier(rows[j]))
          => /\ ~(rows[i].State # "running" /\ rows[j].State = "running")
             /\ ((rows[i].State = "running") = (rows[j].State = "running"))
                   => PlaceOf(rows[i]) < PlaceOf(rows[j])

\* The confirmation modal of the agent deployment, open for an instance.
OpenFor(instance) ==
    [show |-> TRUE, instanceId |-> instance.InstanceId, region |-> instance.Region]

\* C17: the test a row click makes is true for exactly the rows whose instance has
\* no agent configured, in every order the table may render the list; and a step
\* opens the agent-deployment confirmation modal only for an instance of the list
\* whose agent is not configured, changing nothing else (no call, no message).  A
\* click on the row of an instance with the agent configured is therefore a step
\* that changes nothing.
C17_RowClickOpensForNotConfigured ==
    /\ [](\A rows \in sortedInstances(instances) : \A r \in 1..Len(rows) :
             actionNeeded(rows[r]) <=> ~rows[r].CloudWatchConfigured)
    /\ [][(confirmationModal'.show /\ confirmationModal' # confirmationModal)
          => /\ \E k \in 1..Len(instances) :
                   /\ ~instances[k].CloudWatchConfigured
                   /\ confirmationModal' = OpenFor(instances[k])
             /\ UNCHANGED <<messages, loading, conversationState, accountGroups,
                            selectedAccount, instances, tables, calls, timers,
                            typeModal, volumeModal>>]_vars

\* C17 witness: the modal is open for an instance without the agent, in a list
\* that also holds an instance with the agent and one with agent and alarms.
C17_Witness ==
    /\ confirmationModal.show
    /\ \E k \in 1..Len(instances) :
          ~instances[k].CloudWatchConfigured /\ confirmationModal = OpenFor(instances[k])
    /\ \E k \in 1..Len(instances) : Tier(instances[k]) = 1
    /\ \E k \in 1..Len(instances) : Tier(instances[k]) = 2

\* C18 as stated: for every instance of the list, the volume-conversion and the
\* type-change buttons of its row are enabled exactly when its State is not
\* terminated, and the alarm-configuration button of its row is there and enabled
\* exactly when its State is running and its agent is configured, whatever else
\* is in progress and whether or not its alarms are configured.
C18_ActionsGatedByStateOnly ==
    \A k \in 1..Len(instances) :
       /\ VolumeConversionEnabled(instances[k], volumeModal.volumeLoading)
             <=> instances[k].State # "terminated"
       /\ TypeChangeEnabled(instances[k]) <=> instances[k].State # "terminated"
       /\ \A t \in DOMAIN tables :
             AlarmConfigurationEnabled(instances[k], tables[t].alarmLoading)
                <=> (instances[k].State = "running" /\ instances[k].CloudWatchConfigured)

\* The answer of a call is a failure: no connection or a non-2xx answer, or a body
\* that says success: false.
Failed(call) ==
    \/ call.resp.status = "error"
    \/ /\ call.resp.status = "ok"
       /\ Has(call.resp.body, "success")
       /\ call.resp.body.success = FALSE

\* The texts of the messages the handlers append for a failure.
FailureNotices ==
    {"sorry-accounts", "sorry-instances", "error-communicating", "agent-failed",
     "refresh-failed", "alarms-failed"}

IsBlank(s) == \A i \in 1..Len(s) : SubSeq(s, i, i) = " "

BlankInputs == {v \in ChatInputs \cup IntentInputs : IsBlank(v)}

\* C20: in every state, handleSend on an empty or whitespace-only input can only
\* leave every variable as it is (no message, no call, loading not set); and so
\* no message of the user's in the transcript and no chat request in flight
\* carries a blank text.
C20_BlankSendIsNoOp ==
    /\ \A v \in BlankInputs : ~ENABLED (HandleSend(v) /\ vars' # vars)
    /\ \A m \in 1..Len(messages) :
          (messages[m].from = "user" /\ messages[m].text[1] = "input")
          => ~IsBlank(messages[m].text[2])
    /\ \A i \in 1..Len(calls) :
          calls[i].op = "sendMessage" => ~IsBlank(calls[i].args.message)

\* C20 witness: in the middle of a conversation, with nothing loading, a send of
\* the input of two spaces can happen, and it leaves the state as it is.
C20_Witness ==
    /\ ~loading
    /\ Len(messages) >= 3
    /\ "  " \in BlankInputs
    /\ ENABLED (HandleSend("  ") /\ UNCHANGED vars)

\* This step issues one call of op, appended to the calls in flight.
Issues(op) ==
    /\ Len(calls') = Len(calls) + 1
    /\ SubSeq(calls', 1, Len(calls)) = calls
    /\ calls'[Len(calls')].op = op

Issued == calls'[Len(calls')]

\* C21 as stated: every findGp2Volumes request carries the scope and the source
\* volume type filter the modal holds when the request is issued: the instanceId
\* of the modal's instance for the instance scope and none for the region scope,
\* and the volumeTypeFilter chosen.
C21_DiscoveryCarriesChosenFilter ==
    [][Issues("findGp2Volumes")
       => /\ Issued.args.volumeTypeFilter = volumeModal'.sourceVolumeTypeFilter
          /\ Issued.args.instanceId =
                IF volumeModal'.conversionScope = "instance"
                THEN volumeModal'.instance.InstanceId ELSE Null]_vars

\* C22 as stated: while the volume conversion is in flight (loading before and
\* after the step) the modal stays open and its selection, its configuration, its
\* scope, its filter and its step stay as they are, and no second conversion is
\* issued; likewise for the instance-type change while isLoading.
C22_ControlsDisabledWhileExecuting ==
    [][/\ (volumeModal.loading /\ volumeModal'.loading)
          => /\ volumeModal'.show = volumeModal.show
             /\ volumeModal'.instance = volumeModal.instance
             /\ volumeModal'.selectedVolumes = volumeModal.selectedVolumes
             /\ volumeModal'.targetVolumeType = volumeModal.targetVolumeType
             /\ volumeModal'.customIops = volumeModal.customIops
             /\ volumeModal'.customThroughput = volumeModal.customThroughput
             /\ volumeModal'.conversionScope = volumeModal.conversionScope
             /\ volumeModal'.sourceVolumeTypeFilter = volumeModal.sourceVolumeTypeFilter
             /\ volumeModal'.step = volumeModal.step
             /\ ~Issues("convertGp2ToGp3Volumes")
       /\ (typeModal.isLoading /\ typeModal'.isLoading)
          => /\ typeModal'.show = typeModal.show
             /\ typeModal'.instance = typeModal.instance
             /\ typeModal'.newInstanceType = typeModal.newInstanceType
             /\ ~Issues("changeInstanceType")]_vars

\* C23 as stated: a discovery query issued from the error step of the open modal
\* moves the step to discovery, and the step is never error while the modal is
\* discovering.
C23_RetryReentersDiscovery ==
    [][/\ (volumeModal.show /\ volumeModal.step = "error" /\ Issues("findGp2Volumes"))
          => volumeModal'.step = "discovery"
       /\ (volumeModal'.show /\ volumeModal'.discovering)
          => volumeModal'.step # "error"]_vars

\* The calls of an operation that are in flight: issued and not yet completed.
InFlight(op) == {i \in 1..Len(calls) : calls[i].op = op}

\* C24 as stated: at most one call of each backend operation is in flight.
C24_OneCallPerAction ==
    \A i, j \in 1..Len(calls) : calls[i].op = calls[j].op => i = j

\* The number of action modals that are shown.
ShownModals ==
    (IF confirmationModal.show THEN 1 ELSE 0)
    + Cardinality({t \in DOMAIN tables : tables[t].alarmModal.show})
    + (IF typeModal.show THEN 1 ELSE 0)
    + (IF volumeModal.show THEN 1 ELSE 0)

\* C25 as stated: at most one of the agent-deployment confirmation modal, the
\* alarm-configuration modals, the instance-type-change modal and the
\* volume-conversion modal is shown.
C25_OneModalShown == ShownModals <= 1

\* C26: every step leaves every message of the transcript at its place, with its
\* sender, text and kind, and changes nothing of it except, in an instances-table
\* message, the instances payload; the messages a step adds come after them.
C26_TranscriptAppendOnly ==
    [][/\ Len(messages') >= Len(messages)
       /\ \A m \in 1..Len(messages) :
             \/ messages'[m] = messages[m]
             \/ /\ messages[m].type = "instances-table"
                /\ messages'[m] =
                      [messages[m] EXCEPT !.data.instances = messages'[m].data.instances]]_vars

\* C26 witness: the transcript starts with the welcome, holds an instances-table
\* message, after it the user's refresh message that addMessage appended, and
\* ends with the bot's message about the refresh.
C26_Witness ==
    /\ messages[1] = WelcomeMessage
    /\ \E t \in DOMAIN tables : \E m \in (t + 1)..(Len(messages) - 1) :
          /\ messages[t].type = "instances-table"
          /\ messages[m] = TextMessage("user", <<"refresh-instance-status">>)
    /\ messages[Len(messages)].from = "bot"
    /\ messages[Len(messages)].text[1] = "refreshed"

\* The instance is one the backend holds for the account, in some version of its
\* data.
DiscoveredIn(instance, accountId) ==
    \E v \in Versions : \E j \in 1..Len(BackendInstances(accountId, v)) :
       BackendInstances(accountId, v)[j].InstanceId = instance.InstanceId

\* C27 as stated: while no discoverInstances call is in flight and an account is
\* selected, every instance of the shared list is an instance of the selected
\* account.
C27_ListIsOfSelectedAccount ==
    (InFlight("discoverInstances") = {} /\ selectedAccount \in AccountIds)
    => \A k \in 1..Len(instances) : DiscoveredIn(instances[k], selectedAccount)

\* The requests that name an instance.
InstanceScopedOps ==
    {"deployCloudWatchAgent", "configureAlarms", "changeInstanceType", "findGp2Volumes"}

\* C28 as stated: every request in flight that names an instance names it with the
\* account in which the backend holds that instance.
C28_InstanceWithItsAccount ==
    \A i \in 1..Len(calls) :
       (calls[i].op \in InstanceScopedOps /\ calls[i].args.instanceId # Null)
       => DiscoveredIn([InstanceId |-> calls[i].args.instanceId], calls[i].args.accountId)

\* Call i is a discovery issued for another instance than the one the shown
\* volume modal displays: a request earlier than the one of the current render.
IsEarlierDiscovery(i) ==
    /\ calls[i].op = "findGp2Volumes"
    /\ volumeModal.show
    /\ calls[i].args.instanceId # Null
    /\ calls[i].args.instanceId # volumeModal.instance.InstanceId

\* C29: in the volume modal, the answer to a discovery request issued before the
\* modal was closed and opened again for another instance never overwrites the
\* displayed volumes or the selection, and never moves the step (for instance
\* from configuration back to selection): every step that completes such a call
\* leaves the volumes, the selected volumes and the step as they were.
C29_LatestDiscoveryWins ==
    [][\A i \in 1..Len(calls) :
          (Completes(i) /\ IsEarlierDiscovery(i)) =>
              /\ volumeModal'.volumes = volumeModal.volumes
              /\ volumeModal'.selectedVolumes = volumeModal.selectedVolumes
              /\ volumeModal'.step = volumeModal.step]_vars

\* The busy flag that guards a call is set: ChatBot's loading for the calls of
\* handleSend, handleAccountSelect and proceedWithDeployment, the table's
\* refreshing and alarmLoading for its refresh and its alarm configuration, the
\* volume modal's discovering and loading / volumeLoading, and the type modal's
\* isLoading.  The calls of timers are guarded by no flag.
FlagOf(call) ==
    CASE call.origin \in {"handleSend", "handleAccountSelect", "proceedWithDeployment"} ->
             loading
      [] call.origin = "handleRefreshInstances" -> tables[call.args.tbl].refreshing
      [] call.origin = "handleConfirmAlarmConfig" -> tables[call.args.tbl].alarmLoading
      [] call.origin = "discoverVolumes" -> volumeModal.discovering
      [] call.origin = "handleConvert" -> volumeModal.loading /\ volumeModal.volumeLoading
      [] call.origin = "executeInstanceTypeChange" -> typeModal.isLoading
      [] OTHER -> TRUE

\* C30: no busy flag is false while a call it guards is still in flight, also
\* when two guarded calls overlap (an account selection during a chat send, a
\* manual refresh during an automatic one): for every call in flight the flag
\* that guards it is true.
C30_BusyWhileInFlight == \A i \in 1..Len(calls) : FlagOf(calls[i])

====
